---------------------------- MODULE Spec2Model ----------------------------
(***************************************************************************)
(* Warehouse inventory dashboard: the Express API of inventory_api.js over *)
(* the `items` table, and the React dashboard of index.tsx that holds the  *)
(* collection in local state and talks to the API with fetch.              *)
(*                                                                         *)
(* A JSON object is a record; a property that is undefined, and a column   *)
(* that is NULL, is a field absent from the record (JSON.stringify drops   *)
(* undefined properties and the driver binds undefined as NULL).           *)
(***************************************************************************)
EXTENDS Integers, Sequences, FiniteSets, TLC

VARIABLES
    dbItems,      \* the rows of the `items` table
    nextId,       \* the next value of the table's id sequence
    req,          \* API view: the request the service handled last
    res,          \* API view: the response it sent
    calls,        \* API view: requests handled so far
    posted,       \* ids the successful POST /items returned (dashboard: per client)
    items,        \* dashboard: useState<Item[]> of each client
    editingItem,  \* dashboard: the edit draft of each client (NoDraft: null)
    newItem,      \* dashboard: the create draft of each client
    net,          \* requests and responses in flight
    sent,         \* dashboard: requests the users' clicks issued so far, all clients
    acked,        \* dashboard: responses each client has handled as res.ok
    mode,         \* the view of the run: "api", "one" or "two" dashboards, "search"
    search,       \* search view: the query string of client 1
    shown         \* search view: the list client 1 renders for the query

vars == <<dbItems, nextId, req, res, calls, posted, items, editingItem,
          newItem, net, sent, acked, mode, search,
          shown>>

apiVars == <<req, res, calls>>
uiVars == <<items, editingItem, newItem, net, sent, acked, mode>>
searchVars == <<search, shown>>

----------------------------------------------------------------------------
(* Bounds *)

MaxCalls == 4
MaxSent == 2
MaxList == 2
MaxQuery == 2

----------------------------------------------------------------------------
(* The Item shape *)

Mutable == {"name", "description", "barcode", "quantity", "photo_url",
            "missing", "damaged", "notes"}

\* The properties of `body` that the handler destructures, as bound to the
\* statement: an undefined one is bound as NULL.
Pick(body, fields) == [f \in (DOMAIN body) \cap fields |-> body[f]]

RowOf(id, params) == [f \in {"id"} \cup DOMAIN params |->
                          IF f = "id" THEN id ELSE params[f]]

HasId(rows, id) == \E r \in rows : r.id = id

RowWithId(rows, id) == CHOOSE r \in rows : r.id = id

\* Every order in which a SELECT without ORDER BY may return the rows.
RECURSIVE Orders(_)
Orders(rows) ==
    IF rows = {} THEN {<<>>}
    ELSE UNION {{<<r>> \o s : s \in Orders(rows \ {r})} : r \in rows}

----------------------------------------------------------------------------
(* inventory_api.js: what each handler does when its query succeeds.       *)
(* Each yields the table afterwards and the response.                      *)

\* GET /items: the possible responses, one per row order.
GetItems(rows) ==
    {[status |-> 200, data |-> s] : s \in Orders(rows)}

PutItemsPatch(rows, id, body) ==
    IF ~HasId(rows, id)
    THEN [rows |-> rows, res |-> [status |-> 404, error |-> "Item not found"]]
    ELSE LET old == RowWithId(rows, id)
             row == RowOf(id, Pick(body, Mutable) @@ Pick(old, Mutable))
         IN [rows |-> (rows \ {old}) \cup {row},
             res |-> [status |-> 200, data |-> row]]

PutItemsBadId(rows, id, body) ==
    LET params == Pick(body, Mutable)
        newId == IF "id" \in DOMAIN body THEN body.id ELSE id
    IN IF ~HasId(rows, id)
       THEN [rows |-> rows, res |-> [status |-> 404, error |-> "Item not found"]]
       ELSE LET row == RowOf(newId, params)
            IN [rows |-> (rows \ {RowWithId(rows, id)}) \cup {row},
                res |-> [status |-> 200, data |-> row]]

\* PUT /items/:id
PutItems(rows, id, body) ==
    LET params == Pick(body, Mutable)
    IN IF ~HasId(rows, id)
       THEN [rows |-> rows, res |-> [status |-> 404, error |-> "Item not found"]]
       ELSE LET row == RowOf(id, params)
            IN [rows |-> (rows \ {RowWithId(rows, id)}) \cup {row},
                res |-> [status |-> 200, data |-> row]]

UpdateQuantityClamped(rows, id, body) ==
    IF ~HasId(rows, id)
    THEN [rows |-> rows, res |-> [status |-> 200, success |-> TRUE]]
    ELSE LET old == RowWithId(rows, id)
             sum == old.quantity + body.quantity
             row == IF "quantity" \in DOMAIN old
                    THEN [old EXCEPT !.quantity = IF sum < 0 THEN 0 ELSE sum]
                    ELSE old
         IN [rows |-> (rows \ {old}) \cup {row},
             res |-> [status |-> 200, success |-> TRUE, item |-> row]]

\* POST /items/:id/update-quantity
UpdateQuantity(rows, id, body) ==
    IF ~HasId(rows, id)
    THEN [rows |-> rows, res |-> [status |-> 200, success |-> TRUE]]
    ELSE LET old == RowWithId(rows, id)
             row == IF "quantity" \in DOMAIN old
                    THEN [old EXCEPT !.quantity = @ + body.quantity]
                    ELSE old
         IN [rows |-> (rows \ {old}) \cup {row},
             res |-> [status |-> 200, success |-> TRUE, item |-> row]]

\* The destructuring defaults of POST /items.
Defaults == [missing |-> FALSE, damaged |-> FALSE, notes |-> ""]

PostItemsNoDefaults(rows, id, body) ==
    LET row == RowOf(id, Pick(body, Mutable))
    IN [rows |-> rows \cup {row}, res |-> [status |-> 201, data |-> row]]

\* POST /items; `id` is the value the table's sequence gives the new row.
PostItems(rows, id, body) ==
    LET row == RowOf(id, Pick(body, Mutable) @@ Defaults)
    IN [rows |-> rows \cup {row}, res |-> [status |-> 201, data |-> row]]

\* The catch block of every handler: the query rejected, nothing written.
InternalError == [status |-> 500, error |-> "store failure"]

----------------------------------------------------------------------------
(* API view: requests sent straight to the service, one handled per step.  *)

FullBody == [name |-> "a", description |-> "d", barcode |-> "x", quantity |-> 5,
             photo_url |-> "p", missing |-> TRUE, damaged |-> FALSE,
             notes |-> "n"]

\* Request bodies: complete, without the optional properties, with both flags
\* set and an id of its own, and without notes.
Bodies ==
    { FullBody,
      [name |-> "b", description |-> "d", barcode |-> "x", quantity |-> 0,
       photo_url |-> "p"],
      [id |-> 2, name |-> "a", description |-> "e", barcode |-> "x",
       quantity |-> 5, photo_url |-> "p", missing |-> TRUE, damaged |-> TRUE,
       notes |-> ""],
      [name |-> "b", description |-> "d", barcode |-> "y", quantity |-> 5,
       photo_url |-> "p", missing |-> FALSE, damaged |-> TRUE] }

Deltas == {-3, 1}

NoRequest == [method |-> "none"]

\* The id the table gives the next inserted row: a sequence, never reused.
NewId == nextId

ApiInit ==
    /\ dbItems = {}
    /\ nextId = 1
    /\ req = NoRequest
    /\ res = [status |-> 0]
    /\ calls = 0
    /\ posted = {}
    /\ items = <<>>
    /\ editingItem = <<>>
    /\ newItem = <<>>
    /\ net = {}
    /\ sent = <<>>
    /\ acked = <<>>
    /\ mode = "api"
    /\ search = <<>>
    /\ shown = <<>>

Handled(r) ==
    /\ calls < MaxCalls
    /\ calls' = calls + 1
    /\ req' = r

ApiGet ==
    /\ Handled([method |-> "GET"])
    /\ \/ res' \in GetItems(dbItems)
       \/ res' = InternalError
    /\ UNCHANGED <<dbItems, nextId, posted, uiVars, searchVars>>

ApiPut ==
    \E id \in 1..nextId, body \in Bodies :
        /\ Handled([method |-> "PUT", id |-> id, body |-> body])
        /\ \/ LET out == PutItems(dbItems, id, body)
              IN dbItems' = out.rows /\ res' = out.res
           \/ res' = InternalError /\ UNCHANGED dbItems
        /\ UNCHANGED <<nextId, posted, uiVars, searchVars>>

ApiUpdateQuantity ==
    \E id \in 1..nextId, d \in Deltas :
        /\ Handled([method |-> "UPDQ", id |-> id, body |-> [quantity |-> d]])
        /\ \/ LET out == UpdateQuantity(dbItems, id, [quantity |-> d])
              IN dbItems' = out.rows /\ res' = out.res
           \/ res' = InternalError /\ UNCHANGED dbItems
        /\ UNCHANGED <<nextId, posted, uiVars, searchVars>>

ApiPost ==
    \E body \in Bodies :
        /\ Handled([method |-> "POST", body |-> body])
        /\ \/ LET out == PostItems(dbItems, NewId, body)
              IN /\ dbItems' = out.rows
                 /\ res' = out.res
                 /\ nextId' = nextId + 1
                 /\ posted' = posted \cup {out.res.data.id}
           \/ res' = InternalError /\ UNCHANGED <<dbItems, nextId, posted>>
        /\ UNCHANGED <<uiVars, searchVars>>

ApiNext ==
    \/ ApiGet
    \/ ApiPut
    \/ ApiUpdateQuantity
    \/ ApiPost

ApiSpec == ApiInit /\ [][ApiNext]_vars

----------------------------------------------------------------------------
(* index.tsx: the dashboard.  Each client holds items, editingItem (<<>>   *)
(* for null, <<item>> for a draft) and newItem.                            *)

Clients == {1, 2}

Open == IF mode = "one" THEN {1} ELSE IF mode = "two" THEN Clients ELSE {}

\* useState's initial newItem, and the value addItem resets it to.
EmptyDraft == [name |-> "", description |-> "", barcode |-> "", quantity |-> 0,
               photo_url |-> "", missing |-> FALSE, damaged |-> FALSE,
               notes |-> ""]

\* What the user types into an input of a form.  Every input of a form has
\* the same onChange, { ...draft, [f]: value }; the user of the model types
\* a name into the create form and a negative quantity into the edit form.
Typed(f) ==
    CASE f = "name" -> {"b"}
      [] f = "quantity" -> {-1}

CreateInputs == {"name"}
EditInputs == {"quantity"}

\* e.target.value as the onChange handlers store it:
\* Math.max(0, Number(value)) for the quantity inputs.
InputValue(f, v) == IF f = "quantity" THEN (IF v < 0 THEN 0 ELSE v) ELSE v

\* { ...obj, [f]: v }
Spread(obj, f, v) ==
    [g \in DOMAIN obj \cup {f} |-> IF g = f THEN v ELSE obj[g]]

\* A flag as JavaScript reads it: undefined and null are falsy.
Truthy(item, f) == f \in DOMAIN item /\ item[f] = TRUE

Other(type) == IF type = "missing" THEN "damaged" ELSE "missing"

\* items.find((item) => item.id === id)
Find(list, id) == list[CHOOSE i \in 1..Len(list) :
                          /\ list[i].id = id
                          /\ \A j \in 1..(i - 1) : list[j].id # id]

UpdatedItemKeepsNotes(item, type) ==
    LET newValue == ~Truthy(item, type)
    IN Spread(Spread(Spread(item, type, newValue), Other(type), FALSE),
              "notes", IF newValue THEN "Updated status"
                       ELSE IF "notes" \in DOMAIN item THEN item.notes ELSE "")

UpdatedItemKeepsOther(item, type) ==
    LET newValue == ~Truthy(item, type)
    IN Spread(Spread(item, type, newValue),
              "notes", IF newValue THEN "Updated status" ELSE "")

\* The updatedItem handleMissingOrDamaged builds.
UpdatedItem(item, type) ==
    LET newValue == ~Truthy(item, type)
    IN Spread(Spread(Spread(item, type, newValue), Other(type), FALSE),
              "notes", IF newValue THEN "Updated status" ELSE "")

\* What a handler resumes with when its fetch promise rejects: no response.
Rejected == [status |-> 0, data |-> [error |-> "fetch rejected"]]

\* res.ok
Ok(r) == r.status \in 200..299

View(c) == [items |-> items[c], editingItem |-> editingItem[c],
            newItem |-> newItem[c]]

\* fetchItems after its await: setItems(data), or the catch.
FetchItemsDone(st, r) ==
    IF ~Ok(r) THEN st ELSE [st EXCEPT !.items = r.data]

ReplaceById(list, data) ==
    [i \in 1..Len(list) |->
        IF "id" \in DOMAIN data /\ list[i].id = data.id THEN data ELSE list[i]]

UpdateItemDoneUnchecked(st, r) ==
    [st EXCEPT !.items = ReplaceById(st.items, r.data), !.editingItem = <<>>]

UpdateItemDoneKeepsLocal(st, r) ==
    IF ~Ok(r) THEN st ELSE [st EXCEPT !.editingItem = <<>>]

\* updateItem after its await: the map over prevItems and
\* setEditingItem(null), or the catch.
UpdateItemDone(st, r) ==
    IF ~Ok(r) THEN st
    ELSE [st EXCEPT !.items = ReplaceById(st.items, r.data),
                    !.editingItem = <<>>]

\* addItem after its await: the append to prevItems and the reset of
\* newItem, or the catch.
AddItemDone(st, r) ==
    IF ~Ok(r) THEN st
    ELSE [st EXCEPT !.items = Append(@, r.data), !.newItem = EmptyDraft]

Done(kind, st, r) ==
    CASE kind = "fetch" -> FetchItemsDone(st, r)
      [] kind = "add" -> AddItemDone(st, r)
      [] kind = "update" -> UpdateItemDone(st, r)

----------------------------------------------------------------------------
(* Dashboard view: the clients, the requests in flight and the service.    *)

\* The table the dashboards open on: one item, flagged damaged.
Seed == [id |-> 1, name |-> "a", description |-> "d", barcode |-> "x",
         quantity |-> 3, photo_url |-> "p", missing |-> FALSE,
         damaged |-> TRUE, notes |-> "n"]

\* A request as fetch sends it.  `alone` records that no other request has
\* been in flight during its life; `via` and `from` record what issued it.
Request(c, kind, id, body, via, from) ==
    [client |-> c, kind |-> kind, phase |-> "request", id |-> id,
     body |-> body, via |-> via, from |-> from, alone |-> TRUE]

FetchRequest(c) == Request(c, "fetch", 0, <<>>, "mount", <<>>)

InFlight == DOMAIN net

\* Requests in flight are keyed by the order of issue, after the fetches.
NextKey == Cardinality(Clients) + sent + 1

Issue(m) ==
    /\ sent < MaxSent
    /\ sent' = sent + 1
    /\ net' = [n \in InFlight \cup {NextKey} |->
                  IF n = NextKey THEN [m EXCEPT !.alone = (InFlight = {})]
                  ELSE [net[n] EXCEPT !.alone = FALSE]]

Without(n) == [k \in InFlight \ {n} |-> net[k]]

\* The clients whose on-mount fetch has already been answered when the run
\* starts: with two dashboards, the first one.
Loaded(m) == IF m = "two" THEN {1} ELSE {}

\* The dashboards just mounted: the fetch of useEffect is in flight.
UiInit(m) ==
    /\ mode = m
    /\ dbItems = {Seed}
    /\ nextId = 2
    /\ req = NoRequest
    /\ res = [status |-> 0]
    /\ calls = 0
    /\ posted = [c \in Clients |-> {}]
    /\ items = [c \in Clients |-> IF c \in Loaded(m) THEN <<Seed>> ELSE <<>>]
    /\ editingItem = [c \in Clients |-> <<>>]
    /\ newItem = [c \in Clients |-> EmptyDraft]
    /\ sent = 0
    /\ acked = [c \in Clients |-> IF c \in Loaded(m) THEN 1 ELSE 0]
    /\ net = [c \in Open \ Loaded(m) |->
                 [FetchRequest(c) EXCEPT !.alone = (Open \ Loaded(m) = {c})]]
    /\ search = <<>>
    /\ shown = <<>>

Untouched ==
    UNCHANGED <<dbItems, nextId, posted, acked, apiVars, mode, searchVars>>

\* onChange of an input of the create form.
ChangeNewItem ==
    \E c \in Open, f \in CreateInputs : \E v \in Typed(f) :
        /\ newItem' = [newItem EXCEPT ![c] = Spread(@, f, InputValue(f, v))]
        /\ UNCHANGED <<items, editingItem, net, sent>>
        /\ Untouched

\* The Add Item button.
AddItem ==
    \E c \in Open :
        /\ Issue(Request(c, "add", 0, newItem[c], "addItem", <<>>))
        /\ UNCHANGED <<items, editingItem, newItem>>
        /\ Untouched

\* The Edit button of a listed item.
SetEditingItem ==
    \E c \in Open : \E i \in 1..Len(items[c]) :
        /\ editingItem' = [editingItem EXCEPT ![c] = <<items[c][i]>>]
        /\ UNCHANGED <<items, newItem, net, sent>>
        /\ Untouched

\* The edit form is rendered inside the card of the item being edited.
EditFormShown(c) ==
    /\ editingItem[c] # <<>>
    /\ \E i \in 1..Len(items[c]) : items[c][i].id = editingItem[c][1].id

\* onChange of an input of the edit form.
ChangeEditingItem ==
    \E c \in Open, f \in EditInputs : \E v \in Typed(f) :
        /\ EditFormShown(c)
        /\ editingItem' = [editingItem EXCEPT
                              ![c] = <<Spread(@[1], f, InputValue(f, v))>>]
        /\ UNCHANGED <<items, newItem, net, sent>>
        /\ Untouched

\* The Save Changes button: updateItem(editingItem).
SaveChanges ==
    \E c \in Open :
        /\ EditFormShown(c)
        /\ LET e == editingItem[c][1]
           IN Issue(Request(c, "update", e.id, e, "save", e))
        /\ UNCHANGED <<items, editingItem, newItem>>
        /\ Untouched

\* The Cancel button.
Cancel ==
    \E c \in Open :
        /\ EditFormShown(c)
        /\ editingItem' = [editingItem EXCEPT ![c] = <<>>]
        /\ UNCHANGED <<items, newItem, net, sent>>
        /\ Untouched

\* The Missing and Damaged buttons of a listed item.
HandleMissingOrDamaged ==
    \E c \in Open, type \in {"missing", "damaged"} :
        \E i \in 1..Len(items[c]) :
            LET item == Find(items[c], items[c][i].id)
                updatedItem == UpdatedItem(item, type)
            IN /\ Issue(Request(c, "update", updatedItem.id, updatedItem,
                                type, item))
               /\ UNCHANGED <<items, editingItem, newItem>>
               /\ Untouched

Response(m, r) ==
    [client |-> m.client, kind |-> m.kind, phase |-> "response",
     status |-> r.status, data |-> r.data, via |-> m.via, from |-> m.from,
     alone |-> m.alone]

Answer(n, r) == net' = [net EXCEPT ![n] = Response(net[n], r)]

\* The service handles a request in flight: GET /items, POST /items or
\* PUT /items/:id, each with its catch block.
Serve ==
    \E n \in InFlight :
        LET m == net[n]
        IN /\ m.phase = "request"
           /\ \/ /\ m.kind = "fetch"
                 /\ \E r \in GetItems(dbItems) : Answer(n, r)
                 /\ UNCHANGED <<dbItems, nextId>>
              \/ /\ m.kind = "add"
                 /\ LET out == PostItems(dbItems, NewId, m.body)
                    IN dbItems' = out.rows /\ Answer(n, out.res)
                 /\ nextId' = nextId + 1
              \/ /\ m.kind = "update"
                 /\ LET out == PutItems(dbItems, m.id, m.body)
                    IN dbItems' = out.rows /\ Answer(n, out.res)
                 /\ UNCHANGED nextId
              \/ /\ Answer(n, [status |-> 500,
                               data |-> [error |-> InternalError.error]])
                 /\ UNCHANGED <<dbItems, nextId>>
           /\ UNCHANGED <<items, editingItem, newItem, sent, posted, acked>>
           /\ UNCHANGED <<apiVars, mode, searchVars>>

Settle(n, r) ==
    LET m == net[n]
        st == Done(m.kind, View(m.client), r)
    IN /\ items' = [items EXCEPT ![m.client] = st.items]
       /\ editingItem' = [editingItem EXCEPT ![m.client] = st.editingItem]
       /\ newItem' = [newItem EXCEPT ![m.client] = st.newItem]
       /\ posted' = IF m.kind = "add" /\ Ok(r)
                    THEN [posted EXCEPT ![m.client] = @ \cup {r.data.id}]
                    ELSE posted
       /\ acked' = IF Ok(r) THEN [acked EXCEPT ![m.client] = @ + 1] ELSE acked
       /\ net' = Without(n)
       /\ UNCHANGED <<dbItems, nextId, sent, apiVars, mode, searchVars>>

\* A response reaches the client and the handler resumes after its await.
Receive ==
    \E n \in InFlight :
        /\ net[n].phase = "response"
        /\ Settle(n, [status |-> net[n].status, data |-> net[n].data])

\* The fetch promise rejects (the request or the response is lost) and the
\* handler resumes in its catch.
Reject ==
    \E n \in InFlight : Settle(n, Rejected)

UiNext ==
    \/ ChangeNewItem
    \/ AddItem
    \/ SetEditingItem
    \/ ChangeEditingItem
    \/ SaveChanges
    \/ Cancel
    \/ HandleMissingOrDamaged
    \/ Serve
    \/ Receive
    \/ Reject

\* One dashboard.
UiSpec == UiInit("one") /\ [][UiNext]_vars

\* Two dashboards on the same service.
TwoSpec == UiInit("two") /\ [][UiNext]_vars

----------------------------------------------------------------------------
(* Search view: index.tsx's filteredItems.  Here a string is the sequence  *)
(* of its characters.                                                      *)

Letters == {"a", "A", "b", "B"}

\* String.prototype.toLowerCase, a character at a time.
LowerChar(ch) == CASE ch = "A" -> "a" [] ch = "B" -> "b" [] OTHER -> ch

ToLowerCase(str) == [i \in 1..Len(str) |-> LowerChar(str[i])]

\* String.prototype.includes
Includes(str, part) ==
    \E k \in 0..(Len(str) - Len(part)) :
        \A j \in 1..Len(part) : str[k + j] = part[j]

SearchFields == <<"name", "description", "barcode", "notes">>

\* field?.toString().toLowerCase() || ""
FieldText(item, f) == IF f \in DOMAIN item THEN ToLowerCase(item[f]) ELSE <<>>

FilteredItemsCaseSensitive(list, query) ==
    SelectSeq(list, LAMBDA item :
        \E k \in 1..Len(SearchFields) :
            Includes(FieldText(item, SearchFields[k]), query))

\* items.filter(...) of the render.
FilteredItems(list, query) ==
    SelectSeq(list, LAMBDA item :
        \E k \in 1..Len(SearchFields) :
            Includes(FieldText(item, SearchFields[k]), ToLowerCase(query)))

\* The items a list of the search view is made of; the last has no notes.
Pool ==
    { [id |-> 1, name |-> <<"a", "B">>, description |-> <<>>,
       barcode |-> <<"b">>, notes |-> <<>>],
      [id |-> 2, name |-> <<"B">>, description |-> <<"b", "a">>,
       barcode |-> <<>>, notes |-> <<"A", "a">>],
      [id |-> 3, name |-> <<>>, description |-> <<"A">>,
       barcode |-> <<"a", "b">>, notes |-> <<"B", "A">>],
      [id |-> 4, name |-> <<"b">>, description |-> <<>>,
       barcode |-> <<"B", "b">>] }

Strings(S, n) == UNION {[1..k -> S] : k \in 0..n}

SearchInit ==
    /\ mode = "search"
    /\ dbItems = {}
    /\ nextId = 1
    /\ req = NoRequest
    /\ res = [status |-> 0]
    /\ calls = 0
    /\ posted = [c \in Clients |-> {}]
    /\ \E list \in Strings(Pool, MaxList) :
           items = [c \in Clients |-> IF c = 1 THEN list ELSE <<>>]
    /\ editingItem = [c \in Clients |-> <<>>]
    /\ newItem = [c \in Clients |-> EmptyDraft]
    /\ sent = 0
    /\ acked = [c \in Clients |-> 0]
    /\ net = <<>>
    /\ search = <<>>
    /\ shown = FilteredItems(items[1], search)

\* onChange of the search bar, and the render that follows.
SetSearch ==
    \E query \in Strings(Letters, MaxQuery) :
        /\ search' = query
        /\ shown' = FilteredItems(items[1], query)
        /\ UNCHANGED <<dbItems, nextId, posted, apiVars, uiVars>>

SearchSpec == SearchInit /\ [][SetSearch]_vars

----------------------------------------------------------------------------
(* Claims about the dashboard.                                             *)

Exclusive(item) == ~(Truthy(item, "missing") /\ Truthy(item, "damaged"))

\* C4: with several dashboards creating, editing, cancelling and toggling,
\* and requests and responses in flight, every stored item and every item
\* of every client's list has at most one of missing and damaged set.
C4_AtMostOneFlag ==
    /\ \A r \in dbItems : Exclusive(r)
    /\ \A c \in Clients : \A i \in 1..Len(items[c]) : Exclusive(items[c][i])

\* Two clients toggled the same item, each from its own copy: the first set
\* missing, the second (still seeing damaged) cleared damaged.
C4_Witness ==
    /\ sent = 2 /\ net = <<>>
    /\ acked = [c \in Clients |-> 2]
    /\ items[1][1].id = 1 /\ items[1][1].missing = TRUE
    /\ items[2][1].id = 1 /\ items[2][1].missing = FALSE
    /\ items[2][1].damaged = FALSE
    /\ items[2][1] \in dbItems

\* The step in which the client of response n handles it after its await.
Received(n) ==
    /\ DOMAIN net' = InFlight \ {n}
    /\ net[n].phase = "response"
    /\ Settle(n, [status |-> net[n].status, data |-> net[n].data])

\* `new` is `old` after its `type` flag was toggled: the flag flipped, the
\* other flag cleared, notes the marker when the flag went on and empty when
\* it went off, everything else as it was.
Toggled(old, type, new) ==
    LET on == ~Truthy(old, type)
    IN /\ DOMAIN new = DOMAIN old \cup {"missing", "damaged", "notes"}
       /\ new[type] = on
       /\ new[Other(type)] = FALSE
       /\ new.notes = IF on THEN "Updated status" ELSE ""
       /\ \A f \in DOMAIN old \ {"missing", "damaged", "notes"} :
              new[f] = old[f]

\* C5: when the PUT of a status toggle succeeds with no other request in
\* flight during its life, the stored record and the local entry of the item
\* are the local record as it was, with the toggled flag flipped, the other
\* flag false and notes "Updated status" (flag turned on) or "" (turned off):
\* missing on a damaged item gives missing=true, damaged=false; missing again
\* gives missing=false, damaged=false, notes="".
C5_ToggleResult ==
    [][\A n \in InFlight :
          LET m == net[n]
          IN Received(n) /\ m.kind = "update" /\ m.via \in {"missing", "damaged"}
                 /\ m.alone /\ Ok(m) =>
                 /\ \E i \in 1..Len(items'[m.client]) :
                        items'[m.client][i].id = m.from.id
                 /\ \A i \in 1..Len(items'[m.client]) :
                        items'[m.client][i].id = m.from.id =>
                            Toggled(m.from, m.via, items'[m.client][i])
                 /\ \A i \in 1..Len(items'[m.client]) :
                        items'[m.client][i].id # m.from.id =>
                            items'[m.client][i] = items[m.client][i]
                 /\ \A r \in dbItems' :
                        r.id = m.from.id => Toggled(m.from, m.via, r)
                 /\ HasId(dbItems', m.from.id)]_vars

\* The seed item (damaged) was toggled missing, giving missing=true,
\* damaged=false, notes="Updated status"; the response of toggling missing
\* again is arriving and the store already holds missing=false, notes="".
C5_Witness ==
    \E n \in InFlight :
        /\ net[n].phase = "response" /\ net[n].status = 200
        /\ net[n].via = "missing" /\ net[n].alone
        /\ net[n].from = [Seed EXCEPT !.missing = TRUE, !.damaged = FALSE,
                                      !.notes = "Updated status"]
        /\ items[1] = <<net[n].from>>
        /\ dbItems = {[Seed EXCEPT !.damaged = FALSE, !.notes = ""]}

\* The step in which the request of message n fails for its client: the
\* fetch promise rejects, or the response is not res.ok.
Failed(n) ==
    /\ DOMAIN net' = InFlight \ {n}
    /\ \/ Settle(n, Rejected)
       \/ /\ net[n].phase = "response"
          /\ ~Ok(net[n])
          /\ Settle(n, [status |-> net[n].status, data |-> net[n].data])

\* C7: when the request of the initial fetch, of addItem or of updateItem
\* (a save or a status toggle) is rejected or answered with a non-success
\* status, the client's list, create draft and edit draft are left as they
\* were and no request is issued in its place.
C7_FailureLeavesState ==
    [][\A n \in InFlight :
          Failed(n) =>
              /\ items' = items
              /\ newItem' = newItem
              /\ editingItem' = editingItem
              /\ net' = Without(n)
              /\ sent' = sent]_vars

\* Both requests the user issued have failed (nothing is in flight and only
\* the fetch was acknowledged, the table is as it was): the list, the typed
\* create draft and the open edit draft are still there.
C7_Witness ==
    /\ net = <<>> /\ sent = 2
    /\ acked[1] = 1
    /\ Len(items[1]) = 1
    /\ editingItem[1] # <<>> /\ editingItem[1][1].quantity = 0
    /\ newItem[1].name = "b"
    /\ dbItems = {Seed}

\* C9: a successful response of a replace-update makes the local entry of
\* its item the record it carries, whatever the entry held and whatever the
\* store holds by then; so of two updates of one item the response that
\* arrives last decides the local entry.
C9_LastResponseWins ==
    [][\A n \in InFlight :
          LET m == net[n]
          IN Received(n) /\ m.kind = "update" /\ Ok(m) =>
                 /\ Len(items'[m.client]) = Len(items[m.client])
                 /\ \A i \in 1..Len(items[m.client]) :
                        items'[m.client][i] =
                            IF items[m.client][i].id = m.data.id
                            THEN m.data ELSE items[m.client][i]]_vars

\* Two updates of the seed item were both answered 200 and handled, nothing
\* is in flight, and the local entry is not the stored record.
C9_Witness ==
    /\ net = <<>> /\ sent = 2
    /\ acked[1] = 3
    /\ posted[1] = {}
    /\ Len(items[1]) = 1 /\ items[1][1].id = 1
    /\ items[1][1] \notin dbItems

NoDuplicateIds(list) ==
    \A i, j \in 1..Len(list) : list[i].id = list[j].id => i = j

\* C10: a client's list never holds two entries with the same id and holds
\* every item the client created successfully with addItem.
C10_ListHoldsOwnItemsOnce ==
    \A c \in Clients :
        /\ NoDuplicateIds(items[c])
        /\ posted[c] \subseteq {items[c][i].id : i \in 1..Len(items[c])}

----------------------------------------------------------------------------
(* Claims about the API service, stated of ApiSpec.                        *)

Ids(rows) == {r.id : r \in rows}

\* The eight mutable fields of `row` are those of `body`, value for value.
SameMutable(row, body) ==
    \A f \in Mutable :
        /\ (f \in DOMAIN row) <=> (f \in DOMAIN body)
        /\ f \in DOMAIN body => row[f] = body[f]

OthersKept(before, after, id) ==
    {r \in after : r.id # id} = {r \in before : r.id # id}

IsStep(m) == calls' = calls + 1 /\ req'.method = m

\* What C1 promises of a PUT on an existing id.
Replaced ==
    /\ res'.status = 200
    /\ Cardinality({r \in dbItems' : r.id = req'.id}) = 1
    /\ SameMutable(RowWithId(dbItems', req'.id), req'.body)
    /\ OthersKept(dbItems, dbItems', req'.id)
    /\ res'.data = RowWithId(dbItems', req'.id)

NotFound == res'.status = 404 /\ dbItems' = dbItems

\* C1 as stated: every PUT /items/:id answers 404 and leaves the store alone
\* when no item has the id, and otherwise replaces the item's eight mutable
\* fields by the body's, keeps its id and every other item, and returns the
\* updated record.
C1_AsStated ==
    [][IsStep("PUT") =>
          IF HasId(dbItems, req'.id) THEN Replaced ELSE NotFound]_vars

\* C1 (amended): a PUT /items/:id whose query the store does not reject (the
\* response is not the 500 of the catch block) answers 404 and leaves the
\* store alone when no item has the id, and otherwise replaces the item's
\* eight mutable fields by the body's, keeps its id and every other item, and
\* returns the updated record.
C1_PutReplaces ==
    [][IsStep("PUT") /\ res'.status # 500 =>
          IF HasId(dbItems, req'.id) THEN Replaced ELSE NotFound]_vars

\* A PUT replaced one of two items by a body that differs from what it held.
C1_Witness ==
    /\ req.method = "PUT"
    /\ res.status = 200
    /\ Cardinality(dbItems) = 2
    /\ res.data \in dbItems
    /\ res.data.id = 1
    /\ SameMutable(res.data, req.body)
    /\ "notes" \notin DOMAIN res.data

\* C2: a successful GET /items returns exactly one record per successful
\* POST /items so far, whatever PUT and update-quantity requests came in
\* between: the ids returned are pairwise distinct and are exactly the ids
\* the POSTs returned (none disappeared, none changed).
C2_GetReturnsAllCreated ==
    req.method = "GET" /\ res.status = 200 =>
        /\ Len(res.data) = Cardinality(posted)
        /\ {res.data[i].id : i \in 1..Len(res.data)} = posted
        /\ \A i, j \in 1..Len(res.data) :
               res.data[i].id = res.data[j].id => i = j

\* GET returns both created items after an update-quantity changed one.
C2_Witness ==
    /\ req.method = "GET"
    /\ res.status = 200
    /\ Len(res.data) = 2
    /\ Cardinality(posted) = 2
    /\ \E i \in 1..2 : res.data[i].quantity = 2

\* The record POST /items makes of `body`.
Created(row, body) ==
    /\ \A f \in {"name", "description", "barcode", "quantity", "photo_url"} :
           /\ (f \in DOMAIN row) <=> (f \in DOMAIN body)
           /\ f \in DOMAIN body => row[f] = body[f]
    /\ \A f \in {"missing", "damaged", "notes"} :
           /\ f \in DOMAIN row
           /\ row[f] = IF f \in DOMAIN body THEN body[f]
                       ELSE IF f = "notes" THEN "" ELSE FALSE

\* C3: a successful POST /items returns 201 with a record whose fields are
\* the body's (false, false and "" for an absent missing, damaged, notes) and
\* whose id no item had before; a successful GET /items that follows it
\* returns that record.
C3_PostThenGet ==
    [][/\ IsStep("POST") /\ res'.status = 201 =>
              /\ Created(res'.data, req'.body)
              /\ res'.data.id \notin Ids(dbItems)
       /\ IsStep("GET") /\ res'.status = 200
              /\ req.method = "POST" /\ res.status = 201 =>
              \E i \in 1..Len(res'.data) :
                  /\ res'.data[i] = res.data
                  /\ Created(res'.data[i], req.body)]_vars

\* A POST without the optional properties created a second item, with the
\* defaults filled in.
C3_Witness ==
    /\ req.method = "POST"
    /\ res.status = 201
    /\ DOMAIN req.body \cap {"missing", "damaged", "notes"} = {}
    /\ res.data.missing = FALSE /\ res.data.damaged = FALSE
    /\ res.data.notes = ""
    /\ res.data \in dbItems
    /\ Cardinality(dbItems) = 2
    /\ calls < MaxCalls

\* What C6 promises of an update-quantity on an existing item.
Added ==
    LET old == RowWithId(dbItems, req'.id)
        new == [old EXCEPT !.quantity = old.quantity + req'.body.quantity]
    IN /\ res'.status = 200
       /\ res'.success = TRUE
       /\ res'.item = new
       /\ dbItems' = (dbItems \ {old}) \cup {new}

ShownByGet ==
    IsStep("GET") /\ res'.status = 200 /\ req.method = "UPDQ"
        /\ res.status = 200 /\ "item" \in DOMAIN res =>
        \E i \in 1..Len(res'.data) : res'.data[i] = res.item

\* C6 as stated: every update-quantity with delta d on an existing item of
\* quantity q stores q + d, changes nothing else, and returns
\* 200 {success: true, item} with item.quantity = q + d; a GET /items that
\* follows shows the same record.
C6_AsStated ==
    [][/\ IsStep("UPDQ") /\ HasId(dbItems, req'.id) => Added
       /\ ShownByGet]_vars

\* C6 (amended): an update-quantity with delta d on an existing item of
\* quantity q whose query the store does not reject (the response is not the
\* 500 of the catch block) stores q + d, negative or not, changes nothing
\* else, and returns 200 {success: true, item} with item.quantity = q + d; a
\* successful GET /items that follows shows the same record.
C6_UpdateQuantityAdds ==
    [][/\ IsStep("UPDQ") /\ HasId(dbItems, req'.id) /\ res'.status # 500 =>
              Added
       /\ ShownByGet]_vars

\* Delta -3 on quantity 5 gave 2; the item was then pushed below zero.
C6_Witness ==
    /\ req.method = "UPDQ"
    /\ req.body.quantity = -3
    /\ res.status = 200
    /\ "item" \in DOMAIN res
    /\ res.item.quantity = -1
    /\ res.item \in dbItems

----------------------------------------------------------------------------
(* Claim about the search.                                                 *)

SameLetter(x, y) ==
    \/ x = y
    \/ {x, y} \in {{"a", "A"}, {"b", "B"}}

\* `text` contains `query` somewhere, letter case aside.
ContainsIgnoringCase(text, query) ==
    \E k \in 0..(Len(text) - Len(query)) :
        \A j \in 1..Len(query) : SameLetter(text[k + j], query[j])

Matches(item, query) ==
    \/ ContainsIgnoringCase(item.name, query)
    \/ ContainsIgnoringCase(item.description, query)
    \/ ContainsIgnoringCase(item.barcode, query)
    \/ ContainsIgnoringCase(IF "notes" \in DOMAIN item THEN item.notes
                            ELSE <<>>, query)

\* C8: the displayed list is the sub-sequence, in the list's order, of the
\* items one of whose name, description, barcode, notes contains the query
\* case-insensitively (an absent notes counting as empty); for the empty
\* query it is the whole list.
C8_SearchShowsMatches ==
    /\ \E pos \in [1..Len(shown) -> 1..Len(items[1])] :
           /\ \A k \in 1..Len(shown) : shown[k] = items[1][pos[k]]
           /\ \A k, l \in 1..Len(shown) : k < l => pos[k] < pos[l]
           /\ {pos[k] : k \in 1..Len(shown)} =
                  {i \in 1..Len(items[1]) : Matches(items[1][i], search)}
    /\ search = <<>> => shown = items[1]

\* A query in mixed case keeps one item of two, matched only through a
\* field that differs from the query in case.
C8_Witness ==
    /\ search = <<"A", "A">>
    /\ Len(items[1]) = 2
    /\ Len(shown) = 1
    /\ shown[1].id = 2

====
